---- MODULE Spec2Model ----
(***************************************************************************)
(* Session orchestration of the embeddable chat widget (src/App.tsx).      *)
(*                                                                         *)
(* The React component is modelled as a state machine.  One step is one    *)
(* synchronous block of JavaScript: the code that runs between two awaited *)
(* boundaries of a handler, together with the render and the effects that  *)
(* the block's state updates cause.  The backend collaborator              *)
(* (geminiService), fetch and the timer are the environment: every awaited *)
(* call returns later, in a step of its own, with an outcome drawn from    *)
(* Outcomes.                                                               *)
(***************************************************************************)
EXTENDS Integers, Sequences, FiniteSets, TLC

(* ------------------------------ bounds --------------------------------- *)

MaxCommands == 4    \* host commands (initChat, sendMessage, resetChat) in one behaviour

(* ----------------------------- constants ------------------------------- *)

NoStore == 0        \* activeRagStoreName = null
Undefined == -1     \* a property missing from an object

Statuses == {"Initializing", "Uploading", "Chatting", "Error"}

Outcomes == {"ok", "error"}

\* what a rejected createRagStore can say: handleInitChat looks for a credential error
CreateOutcomes == Outcomes \cup {"api key not valid"}

PUrl == [fileName |-> "A.pdf", url |-> "https://host/a", base64Data |-> "", mimeType |-> ""]
PInline == [fileName |-> "B.pdf", url |-> "", base64Data |-> "Qg==", mimeType |-> "application/pdf"]
PEmpty == [fileName |-> "", url |-> "", base64Data |-> "", mimeType |-> ""]

\* the file lists of the initChat commands the host sends
FileLists ==
    {<<>>, <<PEmpty>>, <<PInline, PUrl>>, <<PInline, PEmpty>>}

DisplayNames == {""}

\* an inline payload that carries no fileName
PNoName == [fileName |-> "", url |-> "", base64Data |-> "Qw==", mimeType |-> "text/plain"]

\* the file lists and display names of the commands of a host that names its
\* documents: one, two and three files, with and without a display name
NamedFileLists ==
    {<<PInline>>, <<PNoName>>, <<PInline, PUrl>>, <<PUrl, PNoName>>, <<PUrl, PInline, PUrl>>}

NamedDisplayNames == {"", "Manual"}

Messages == {"hello"}

NoProgress == [set |-> FALSE, current |-> 0, total |-> 0]

ApologyText == "Sorry, I encountered an error. Please try again."

Questions == <<"What is this document about?">>

(* ------------------------------- state --------------------------------- *)

VARIABLES
    status,               \* useState<AppStatus>
    error,                \* useState<string | null>, "" for null
    uploadProgress,       \* useState<{current, total, ...} | null>
    activeRagStoreName,   \* useState<string | null>
    chatHistory,          \* useState<ChatMessage[]>
    isQueryLoading,       \* useState(false)
    exampleQuestions,     \* useState<string[]>
    documentName,         \* useState<string>
    ragStoreNameRef,      \* useRef(activeRagStoreName)
    handlerStore,         \* activeRagStoreName as captured by the registered message listener
    tasks,                \* handler chains suspended at an await
    cleanups,             \* fire-and-forget deleteRagStore calls not yet settled
    storeCount,           \* createRagStore calls issued
    created,              \* stores createRagStore returned
    deleted,              \* stores a deleteRagStore call was issued for
    deletedAgain,         \* stores a second deleteRagStore call was issued for
    commands,             \* host commands received
    unloaded,             \* beforeunload has fired
    last                  \* the step just taken: emitted events, backend calls issued

vars == <<status, error, uploadProgress, activeRagStoreName, chatHistory, isQueryLoading,
          exampleQuestions, documentName, ragStoreNameRef, handlerStore, tasks, cleanups,
          storeCount, created, deleted, deletedAgain,
          commands, unloaded, last>>

Stores == 1..MaxCommands

NoStep == [op |-> "init", cmd |-> "", outcome |-> "", events |-> <<>>, calls |-> <<>>,
           done |-> FALSE, emitted |-> 0, store |-> NoStore]

Init ==
    /\ status = "Initializing"
    /\ error = ""
    /\ uploadProgress = NoProgress
    /\ activeRagStoreName = NoStore
    /\ chatHistory = <<>>
    /\ isQueryLoading = FALSE
    /\ exampleQuestions = <<>>
    /\ documentName = ""
    /\ ragStoreNameRef = NoStore
    /\ handlerStore = NoStore
    /\ tasks = <<>>
    /\ cleanups = {}
    /\ storeCount = 0
    /\ created = {}
    /\ deleted = {}
    /\ deletedAgain = {}
    /\ commands = 0
    /\ unloaded = FALSE
    /\ last = NoStep

(* ------------------------------ helpers -------------------------------- *)

Event(type, payload) == [type |-> type, payload |-> payload]

Call(fn, store) == [fn |-> fn, store |-> store]

\* an entry of the log of one initialization: fn was started for file i (0 for
\* the calls that concern no file)
Issued(fn, i) == [fn |-> fn, file |-> i]

RemoveAt(s, k) == [j \in 1..(Len(s) - 1) |-> IF j < k THEN s[j] ELSE s[j + 1]]

ReplaceAt(s, k, e) == [s EXCEPT ![k] = e]

\* The effects that run after the render a step causes: the ref follows
\* activeRagStoreName; the message listener is registered again, with the
\* closures of that render, only when status changed.  So the listener always
\* tests the current status, while the activeRagStoreName its handlers read
\* (handlerStore) is the one of the render in which status last changed.
Render ==
    /\ ragStoreNameRef' = activeRagStoreName'
    /\ handlerStore' = IF status' # status THEN activeRagStoreName' ELSE handlerStore

\* the stores a step's calls ask the backend to delete
DeleteTargets(calls) == {calls[j].store : j \in {i \in 1..Len(calls) : calls[i].fn = "deleteRagStore"}}

\* the backend's record of the deleteRagStore calls a step issues
IssueDeletes(calls) ==
    /\ deleted' = deleted \cup DeleteTargets(calls)
    /\ deletedAgain' = deletedAgain \cup (deleted \cap DeleteTargets(calls))

\* a step that is the arrival of a host command
Command == commands < MaxCommands /\ commands' = commands + 1

Step(op, cmd, outcome, events, calls, done, emitted, store) ==
    [op |-> op, cmd |-> cmd, outcome |-> outcome, events |-> events, calls |-> calls,
     done |-> done, emitted |-> emitted, store |-> store]

(* --------------------------- pure functions ---------------------------- *)

\* the message of the Error thrown by getFileFromPayload for a payload with no
\* usable content
InvalidPayloadText == "Invalid file payload: must provide url or base64Data with mimeType."

\* the message of the exception atob throws for a malformed string
InvalidBase64Text == "The string to be decoded is not correctly encoded."

\* handleError's errorMessage: err is "" for null, else the message of the error
ErrorText(message, err) == IF err # "" THEN message \o ": " \o err ELSE message

\* handleError keeping the status it found
HandleErrorKeepsStatus(message) ==
    /\ error' = message
    /\ status' = status

\* handleError: the state it sets; the chatError it posts is in the step record
HandleError(message) ==
    /\ error' = message
    /\ status' = "Error"

\* handleError's choice of message in the catch block of handleInitChat
InitErrorMessage(err) ==
    IF err = "api key not valid" \/ err = "requested entity was not found"
    THEN "The API key is invalid or not found. Please ensure a valid API Key is configured."
    ELSE "Failed to start chat session"

ValidBase64(d) == d # "%"

\* getFileFromPayload taking every payload without a url as decodable
ResolutionAcceptsAll(p) == IF p.url # "" THEN "fetch" ELSE "decode"

\* getFileFromPayload: which branch a payload takes
Resolution(p) ==
    IF p.url # "" THEN "fetch"
    ELSE IF p.base64Data # "" /\ p.mimeType # ""
         THEN (IF ValidBase64(p.base64Data) THEN "decode" ELSE "throw")
         ELSE "throw"

\* new File([...], filePayload.fileName || 'unknown_file', ...).name
FileName(p) == IF p.fileName # "" THEN p.fileName ELSE "unknown_file"

\* the label naming two files in the reverse of their order
DocNameSwapped(chatDisplayName, filesToUpload) ==
    IF chatDisplayName # "" THEN chatDisplayName
    ELSE IF Len(filesToUpload) = 1 THEN filesToUpload[1]
    ELSE IF Len(filesToUpload) = 2 THEN filesToUpload[2] \o " & " \o filesToUpload[1]
    ELSE ToString(Len(filesToUpload)) \o " documents"

\* the document label computed before the transition to Chatting
DocName(chatDisplayName, filesToUpload) ==
    IF chatDisplayName # "" THEN chatDisplayName
    ELSE IF Len(filesToUpload) = 1 THEN filesToUpload[1]
    ELSE IF Len(filesToUpload) = 2 THEN filesToUpload[1] \o " & " \o filesToUpload[2]
    ELSE ToString(Len(filesToUpload)) \o " documents"

TotalSteps(filePayloads) == Len(filePayloads) + 2

\* setUploadProgress(prev => ({ ...(prev!), current: c, ... }))
SpreadProgress(prev, c) ==
    [set |-> TRUE, current |-> c, total |-> IF prev.set THEN prev.total ELSE Undefined]

\* CleanupCalls without the compensating deletion
CleanupCallsNone(ragStoreName) == <<>>

\* the compensating deletion of the catch block of handleInitChat
CleanupCalls(ragStoreName) ==
    IF ragStoreName # NoStore THEN <<Call("deleteRagStore", ragStoreName)>> ELSE <<>>

\* the loop over the payloads stopping one payload early
LoopContinuesShort(i, filePayloads) == i < Len(filePayloads) - 1

\* the condition of the for loop of handleInitChat
LoopContinues(i, filePayloads) == i < Len(filePayloads)

\* handleInitChat from the top of the for loop (or past it) to the next await:
\* t is the chain with ragStoreName set and i the index of the file to process.
AfterFile(t) ==
    IF LoopContinues(t.i, t.files)
    THEN LET p == t.files[t.i + 1]
         IN  CASE Resolution(p) = "fetch" ->
                    [thrown |-> FALSE, err |-> "", current |-> t.i + 1,
                     task |-> [t EXCEPT !.pc = "fetch",
                                        !.calls = Append(@, Issued("getFileFromPayload", t.i + 1))],
                     calls |-> <<Call("fetch", NoStore)>>]
               [] Resolution(p) = "decode" ->
                    [thrown |-> FALSE, err |-> "", current |-> t.i + 1,
                     task |-> [t EXCEPT !.pc = "upload", !.uploaded = Append(@, FileName(p)),
                                        !.calls = @ \o <<Issued("getFileFromPayload", t.i + 1),
                                                         Issued("uploadToRagStore", t.i + 1)>>],
                     calls |-> <<Call("uploadToRagStore", t.store)>>]
               [] OTHER ->
                    [thrown |-> TRUE,
                     err |-> IF p.base64Data # "" /\ p.mimeType # ""
                             THEN InvalidBase64Text ELSE InvalidPayloadText,
                     current |-> t.i + 1, task |-> t, calls |-> <<>>]
    ELSE [thrown |-> FALSE, err |-> "", current |-> Len(t.files) + 1,
          task |-> [t EXCEPT !.pc = "questions",
                             !.calls = Append(@, Issued("generateExampleQuestions", 0))],
          calls |-> <<Call("generateExampleQuestions", t.store)>>]

(* ---------------------------- handleInitChat --------------------------- *)

\* catch + finally of handleInitChat; active is activeRagStoreName as the
\* try block left it.
InitFails(k, t, active, op, err) ==
    /\ HandleError(ErrorText(InitErrorMessage(err), err))
    /\ uploadProgress' = NoProgress
    /\ activeRagStoreName' = active
    /\ cleanups' = cleanups \cup DeleteTargets(CleanupCalls(t.store))
    /\ IssueDeletes(CleanupCalls(t.store))
    /\ tasks' = RemoveAt(tasks, k)
    /\ last' = Step(op, "initChat", "failed", <<Event("chatError", ErrorText(InitErrorMessage(err), err))>>,
                    CleanupCalls(t.store), TRUE, t.emitted + 1, t.store)
    /\ UNCHANGED <<chatHistory, isQueryLoading, exampleQuestions, documentName, storeCount,
                   unloaded>>
    /\ Render

\* the try block of handleInitChat running on to its next await
InitContinues(k, t, active, op) ==
    LET r == AfterFile(t)
    IN  IF r.thrown
        THEN InitFails(k, t, active, op, r.err)
        ELSE /\ uploadProgress' = SpreadProgress(uploadProgress, r.current)
             /\ tasks' = ReplaceAt(tasks, k, r.task)
             /\ activeRagStoreName' = active
             /\ last' = Step(op, "initChat", "ok", <<>>, r.calls, FALSE, 0, t.store)
             /\ UNCHANGED <<status, error, chatHistory, isQueryLoading, exampleQuestions,
                            documentName, cleanups, storeCount, deleted, deletedAgain, unloaded>>
             /\ Render

\* CanInit with the guard against re-entrant initialization dropped
CanInitAlways(st) == TRUE

\* the guard of handleMessage, case 'initChat'
CanInit(st) == st \in {"Initializing", "Error", "Chatting"}

\* handleMessage, case 'initChat', and handleInitChat up to its first await
InitChat(filePayloads, chatDisplayName, initialize) ==
    /\ ~unloaded
    /\ Command
    /\ IF ~CanInit(status)
       THEN /\ last' = Step("initChat", "initChat", "ignored", <<>>, <<>>, TRUE, 0, NoStore)
            /\ UNCHANGED <<status, error, uploadProgress, activeRagStoreName, chatHistory,
                           isQueryLoading, exampleQuestions, documentName, ragStoreNameRef,
                           handlerStore, tasks, cleanups, storeCount, created, deleted, deletedAgain,
                           unloaded>>
       ELSE IF Len(filePayloads) = 0 \/ initialize # "ok"
       THEN LET message == IF Len(filePayloads) = 0
                           THEN ErrorText("No files provided for chat initialization.", "")
                           ELSE ErrorText("Initialization failed.", initialize)
            IN  /\ HandleError(message)
                /\ last' = Step("initChat", "initChat",
                                IF Len(filePayloads) = 0 THEN "noFiles" ELSE "initializeFailed",
                                <<Event("chatError", message)>>, <<>>, TRUE, 1, NoStore)
                /\ UNCHANGED <<uploadProgress, activeRagStoreName, chatHistory, isQueryLoading,
                               exampleQuestions, documentName, tasks, cleanups, storeCount,
                               created, deleted, deletedAgain, unloaded>>
                /\ Render
       ELSE /\ status' = "Uploading"
            /\ error' = ""
            /\ uploadProgress' = [set |-> TRUE, current |-> 0, total |-> TotalSteps(filePayloads)]
            /\ storeCount' = storeCount + 1
            /\ tasks' = Append(tasks, [kind |-> "init", pc |-> "create", files |-> filePayloads,
                                       name |-> chatDisplayName, i |-> 0, store |-> NoStore,
                                       storeName |-> storeCount + 1, uploaded |-> <<>>,
                                       message |-> "", emitted |-> 0,
                                       calls |-> <<Issued("createRagStore", 0)>>,
                                       before |-> <<>>, soloAt |-> 0])
            /\ last' = Step("initChat", "initChat", "started", <<>>,
                            <<Call("createRagStore", storeCount + 1)>>, FALSE, 0, NoStore)
            /\ UNCHANGED <<activeRagStoreName, chatHistory, isQueryLoading, exampleQuestions,
                           documentName, cleanups, created, deleted, deletedAgain, unloaded>>
            /\ Render

\* await geminiService.createRagStore(storeName) returns
CreateReturns(k, outcome) ==
    /\ UNCHANGED commands
    /\ ~unloaded
    /\ tasks[k].kind = "init" /\ tasks[k].pc = "create"
    /\ IF outcome = "ok"
       THEN /\ created' = created \cup {tasks[k].storeName}
            /\ InitContinues(k, [tasks[k] EXCEPT !.store = tasks[k].storeName],
                             tasks[k].storeName, "createRagStore")
       ELSE /\ created' = created
            /\ InitFails(k, tasks[k], activeRagStoreName, "createRagStore", outcome)

\* await fetch(url) and response.blob() return inside getFileFromPayload
FetchReturns(k, outcome) ==
    /\ UNCHANGED commands
    /\ ~unloaded
    /\ tasks[k].kind = "init" /\ tasks[k].pc = "fetch"
    /\ created' = created
    /\ IF outcome = "ok"
       THEN LET t == tasks[k]
                p == t.files[t.i + 1]
            IN  /\ tasks' = ReplaceAt(tasks, k,
                                       [t EXCEPT !.pc = "upload",
                                                 !.uploaded = Append(@, FileName(p)),
                                                 !.calls = Append(@, Issued("uploadToRagStore",
                                                                            t.i + 1))])
                /\ last' = Step("fetch", "initChat", "ok", <<>>,
                                <<Call("uploadToRagStore", t.store)>>, FALSE, 0, t.store)
                /\ UNCHANGED <<status, error, uploadProgress, activeRagStoreName, chatHistory,
                               isQueryLoading, exampleQuestions, documentName, cleanups,
                               storeCount, deleted, deletedAgain, unloaded>>
                /\ Render
       ELSE InitFails(k, tasks[k], activeRagStoreName, "fetch", outcome)

\* await geminiService.uploadToRagStore(ragStoreName, file) returns
UploadReturns(k, outcome) ==
    /\ UNCHANGED commands
    /\ ~unloaded
    /\ tasks[k].kind = "init" /\ tasks[k].pc = "upload"
    /\ created' = created
    /\ IF outcome = "ok"
       THEN InitContinues(k, [tasks[k] EXCEPT !.i = @ + 1], activeRagStoreName, "uploadToRagStore")
       ELSE InitFails(k, tasks[k], activeRagStoreName, "uploadToRagStore", outcome)

\* await geminiService.generateExampleQuestions(ragStoreName) returns
QuestionsReturn(k, outcome) ==
    /\ UNCHANGED commands
    /\ ~unloaded
    /\ tasks[k].kind = "init" /\ tasks[k].pc = "questions"
    /\ created' = created
    /\ IF outcome = "ok"
       THEN LET t == tasks[k]
            IN  /\ exampleQuestions' = Questions
                /\ uploadProgress' = [set |-> TRUE, current |-> TotalSteps(t.files),
                                      total |-> TotalSteps(t.files)]
                /\ tasks' = ReplaceAt(tasks, k, [t EXCEPT !.pc = "delay"])
                /\ last' = Step("generateExampleQuestions", "initChat", "ok", <<>>, <<>>,
                                FALSE, 0, t.store)
                /\ UNCHANGED <<status, error, activeRagStoreName, chatHistory, isQueryLoading,
                               documentName, cleanups, storeCount, deleted, deletedAgain, unloaded>>
                /\ Render
       ELSE InitFails(k, tasks[k], activeRagStoreName, "generateExampleQuestions", outcome)

\* the 500 ms delay elapses: the rest of the try block, then finally
DelayReturns(k) ==
    /\ UNCHANGED commands
    /\ ~unloaded
    /\ tasks[k].kind = "init" /\ tasks[k].pc = "delay"
    /\ LET t == tasks[k]
           docName == DocName(t.name, t.uploaded)
       IN  /\ documentName' = docName
           /\ chatHistory' = <<>>
           /\ status' = "Chatting"
           /\ uploadProgress' = NoProgress
           /\ tasks' = RemoveAt(tasks, k)
           /\ last' = Step("chatReady", "initChat", "ok", <<Event("chatReady", docName)>>, <<>>,
                           TRUE, t.emitted + 1, t.store)
           /\ UNCHANGED <<error, activeRagStoreName, isQueryLoading, exampleQuestions, cleanups,
                          storeCount, created, deleted, deletedAgain, unloaded>>
           /\ Render


(* --------------------------- handleSendMessage ------------------------- *)

UserMessage(message) == [role |-> "user", text |-> message, groundingChunks |-> FALSE]

ModelMessage(text) == [role |-> "model", text |-> text, groundingChunks |-> TRUE]

\* the apology recorded as if the user had written it
ErrorMessageAsUser == [role |-> "user", text |-> ApologyText, groundingChunks |-> FALSE]

\* the errorMessage of the catch block of handleSendMessage
ErrorMessage == [role |-> "model", text |-> ApologyText, groundingChunks |-> FALSE]

\* CanSend accepting a query whenever a session was started
CanSendLoose(st) == st # "Initializing"

\* the guard of handleMessage, case 'sendMessage'
CanSend(st) == st = "Chatting"

\* handleMessage, case 'sendMessage', and handleSendMessage up to its await
SendMessage(message) ==
    /\ ~unloaded
    /\ Command
    /\ IF ~CanSend(status)
       THEN /\ last' = Step("sendMessage", "sendMessage", "rejected",
                            <<Event("chatError", "Chat is not active to send message.")>>,
                            <<>>, TRUE, 1, NoStore)
            /\ UNCHANGED <<status, error, uploadProgress, activeRagStoreName, chatHistory,
                           isQueryLoading, exampleQuestions, documentName, ragStoreNameRef,
                           handlerStore, tasks, cleanups, storeCount, created, deleted, deletedAgain,
                           unloaded>>
       ELSE IF handlerStore = NoStore
       THEN /\ last' = Step("sendMessage", "sendMessage", "noStore",
                            <<Event("chatError", "No active chat session. Please initialize first.")>>,
                            <<>>, TRUE, 1, NoStore)
            /\ UNCHANGED <<status, error, uploadProgress, activeRagStoreName, chatHistory,
                           isQueryLoading, exampleQuestions, documentName, ragStoreNameRef,
                           handlerStore, tasks, cleanups, storeCount, created, deleted, deletedAgain,
                           unloaded>>
       ELSE /\ chatHistory' = Append(chatHistory, UserMessage(message))
            /\ isQueryLoading' = TRUE
            /\ tasks' = Append(tasks, [kind |-> "send", pc |-> "search", files |-> <<>>,
                                       name |-> "", i |-> 0, store |-> handlerStore,
                                       storeName |-> NoStore, uploaded |-> <<>>,
                                       message |-> message, emitted |-> 0, calls |-> <<>>,
                                       before |-> IF tasks = <<>> THEN chatHistory ELSE <<>>,
                                       soloAt |-> IF tasks = <<>> THEN commands + 1 ELSE 0])
            /\ last' = Step("sendMessage", "sendMessage", "started", <<>>,
                            <<Call("fileSearch", handlerStore)>>, FALSE, 0, handlerStore)
            /\ UNCHANGED <<status, error, uploadProgress, activeRagStoreName, exampleQuestions,
                           documentName, cleanups, storeCount, created, deleted, deletedAgain, unloaded>>
            /\ Render

\* await geminiService.fileSearch(activeRagStoreName, message) returns
SearchReturns(k, outcome) ==
    /\ UNCHANGED commands
    /\ ~unloaded
    /\ tasks[k].kind = "send" /\ tasks[k].pc = "search"
    /\ LET t == tasks[k]
       IN  IF outcome = "ok"
           THEN /\ chatHistory' = Append(chatHistory, ModelMessage("answer"))
                /\ isQueryLoading' = FALSE
                /\ tasks' = RemoveAt(tasks, k)
                /\ last' = Step("fileSearch", "sendMessage", "ok",
                                <<Event("chatResponse", "answer")>>, <<>>, TRUE,
                                t.emitted + 1, t.store)
                /\ UNCHANGED <<status, error, uploadProgress, activeRagStoreName,
                               exampleQuestions, documentName, cleanups, storeCount, created,
                               deleted, deletedAgain, unloaded>>
                /\ Render
           ELSE /\ chatHistory' = Append(chatHistory, ErrorMessage)
                /\ HandleError(ErrorText("Failed to get response", outcome))
                /\ isQueryLoading' = FALSE
                /\ tasks' = RemoveAt(tasks, k)
                /\ last' = Step("fileSearch", "sendMessage", "failed",
                                <<Event("chatError", ErrorText("Failed to get response", outcome)),
                                  Event("chatError", "Failed to get response: " \o outcome)>>,
                                <<>>, TRUE, t.emitted + 2, t.store)
                /\ UNCHANGED <<uploadProgress, activeRagStoreName, exampleQuestions,
                               documentName, cleanups, storeCount, created, deleted, deletedAgain, unloaded>>
                /\ Render

(* ---------------------------- handleResetChat -------------------------- *)

\* ResetSession forgetting to clear the history
ResetSessionKeepsHistory(events, emitted, store, op) ==
    /\ activeRagStoreName' = NoStore
    /\ chatHistory' = chatHistory
    /\ exampleQuestions' = <<>>
    /\ documentName' = ""
    /\ status' = "Initializing"
    /\ last' = Step(op, "resetChat", "ok", events, <<>>, TRUE, emitted, store)

\* the state both branches of handleResetChat set when the session is reset
ResetSession(events, emitted, store, op) ==
    /\ activeRagStoreName' = NoStore
    /\ chatHistory' = <<>>
    /\ exampleQuestions' = <<>>
    /\ documentName' = ""
    /\ status' = "Initializing"
    /\ last' = Step(op, "resetChat", "ok", events, <<>>, TRUE, emitted, store)

\* handleMessage, case 'resetChat', and handleResetChat up to its await
ResetChat ==
    /\ ~unloaded
    /\ Command
    /\ IF handlerStore # NoStore
       THEN /\ isQueryLoading' = TRUE
            /\ IssueDeletes(<<Call("deleteRagStore", handlerStore)>>)
            /\ tasks' = Append(tasks, [kind |-> "reset", pc |-> "delete", files |-> <<>>,
                                       name |-> "", i |-> 0, store |-> handlerStore,
                                       storeName |-> NoStore, uploaded |-> <<>>,
                                       message |-> "", emitted |-> 0, calls |-> <<>>,
                                       before |-> <<>>, soloAt |-> 0])
            /\ last' = Step("resetChat", "resetChat", "started", <<>>,
                            <<Call("deleteRagStore", handlerStore)>>, FALSE, 0, handlerStore)
            /\ UNCHANGED <<status, error, uploadProgress, activeRagStoreName, chatHistory,
                           exampleQuestions, documentName, cleanups, storeCount, created,
                           unloaded>>
            /\ Render
       ELSE /\ ResetSession(<<Event("chatEnded", "Chat session reset (no active store).")>>,
                            1, NoStore, "resetChat")
            /\ UNCHANGED <<error, uploadProgress, isQueryLoading, tasks, cleanups, storeCount,
                           created, deleted, deletedAgain, unloaded>>
            /\ Render

\* await geminiService.deleteRagStore(activeRagStoreName) returns in handleResetChat
DeleteReturns(k, outcome) ==
    /\ UNCHANGED commands
    /\ ~unloaded
    /\ tasks[k].kind = "reset" /\ tasks[k].pc = "delete"
    /\ LET t == tasks[k]
       IN  IF outcome = "ok"
           THEN /\ ResetSession(<<Event("chatEnded", "Chat session reset.")>>,
                                t.emitted + 1, t.store, "deleteRagStore")
                /\ isQueryLoading' = FALSE
                /\ tasks' = RemoveAt(tasks, k)
                /\ UNCHANGED <<error, uploadProgress, cleanups, storeCount, created,
                               deleted, deletedAgain, unloaded>>
                /\ Render
           ELSE /\ HandleError(ErrorText("Failed to delete RAG store during reset.", outcome))
                /\ isQueryLoading' = FALSE
                /\ tasks' = RemoveAt(tasks, k)
                /\ last' = Step("deleteRagStore", "resetChat", "failed",
                                <<Event("chatError", ErrorText("Failed to delete RAG store during reset.", outcome))>>,
                                <<>>, TRUE, t.emitted + 1, t.store)
                /\ UNCHANGED <<uploadProgress, activeRagStoreName, chatHistory,
                               exampleQuestions, documentName, cleanups, storeCount, created,
                               deleted, deletedAgain, unloaded>>
                /\ Render

(* ------------------------ clearError and unload ------------------------ *)

\* the "Try Again / Reset" button, rendered only in status Error
ClearError ==
    /\ UNCHANGED commands
    /\ ~unloaded
    /\ status = "Error"
    /\ error' = ""
    /\ status' = "Initializing"
    /\ last' = Step("clearError", "", "ok", <<>>, <<>>, TRUE, 0, NoStore)
    /\ UNCHANGED <<uploadProgress, activeRagStoreName, chatHistory, isQueryLoading,
                   exampleQuestions, documentName, tasks, cleanups, storeCount, created,
                   deleted, deletedAgain, unloaded>>
    /\ Render

\* the deletion handleUnload issues, from the ref
UnloadCalls(ref) ==
    IF ref # NoStore THEN <<Call("deleteRagStore", ref)>> ELSE <<>>

\* the beforeunload listener
HandleUnload ==
    /\ UNCHANGED commands
    /\ ~unloaded
    /\ unloaded' = TRUE
    /\ cleanups' = cleanups \cup DeleteTargets(UnloadCalls(ragStoreNameRef))
    /\ IssueDeletes(UnloadCalls(ragStoreNameRef))
    /\ last' = Step("unload", "", "ok", <<>>, UnloadCalls(ragStoreNameRef), TRUE, 0,
                    ragStoreNameRef)
    /\ UNCHANGED <<status, error, uploadProgress, activeRagStoreName, chatHistory,
                   isQueryLoading, exampleQuestions, documentName, ragStoreNameRef,
                   handlerStore, tasks, storeCount, created>>

\* CleanupSettles with the .catch reporting through handleError
CleanupSettlesSurfaced(s, outcome) ==
    /\ UNCHANGED commands
    /\ s \in cleanups
    /\ cleanups' = cleanups \ {s}
    /\ error' = IF outcome = "ok" THEN error ELSE "Error cleaning up RAG store"
    /\ status' = IF outcome = "ok" THEN status ELSE "Error"
    /\ last' = Step("cleanup", "", IF outcome = "ok" THEN "ok" ELSE "failed",
                    IF outcome = "ok" THEN <<>>
                    ELSE <<Event("chatError", "Error cleaning up RAG store")>>,
                    <<>>, TRUE, 0, s)
    /\ UNCHANGED <<uploadProgress, activeRagStoreName, chatHistory, isQueryLoading,
                   exampleQuestions, documentName, tasks, storeCount, created, deleted,
                   deletedAgain, unloaded>>
    /\ Render

\* a deleteRagStore promise that nothing awaits settles: its .catch only logs
CleanupSettles(s, outcome) ==
    /\ UNCHANGED commands
    /\ s \in cleanups
    /\ cleanups' = cleanups \ {s}
    /\ last' = Step("cleanup", "", IF outcome = "ok" THEN "ok" ELSE "failed", <<>>, <<>>,
                    TRUE, 0, s)
    /\ UNCHANGED <<status, error, uploadProgress, activeRagStoreName, chatHistory,
                   isQueryLoading, exampleQuestions, documentName, ragStoreNameRef,
                   handlerStore, tasks, storeCount, created, deleted, deletedAgain, unloaded>>

(* ------------------- handleMessage: the other messages ----------------- *)

\* the message events the listener receives besides the three commands: one of
\* an unknown type from the parent, one without a type, and a command sent by
\* a window that is not the parent
OtherMessages ==
    {[fromParent |-> TRUE, type |-> "ping"],
     [fromParent |-> TRUE, type |-> ""],
     [fromParent |-> FALSE, type |-> "initChat"]}

\* the default branch answering the sender with a chatError
OtherMessagePostsError(m) ==
    /\ ~unloaded
    /\ last' = Step("message", m.type, "ignored", <<Event("chatError", "Unknown message type")>>,
                    <<>>, TRUE, 1, NoStore)
    /\ UNCHANGED <<status, error, uploadProgress, activeRagStoreName, chatHistory,
                   isQueryLoading, exampleQuestions, documentName, ragStoreNameRef,
                   handlerStore, tasks, cleanups, storeCount, created, deleted, deletedAgain,
                   commands, unloaded>>

\* handleMessage for a message that fails the source and structure test, or
\* whose type is none of the three commands
OtherMessage(m) ==
    /\ ~unloaded
    /\ ~m.fromParent \/ m.type = "" \/ m.type \notin {"initChat", "sendMessage", "resetChat"}
    /\ last' = Step("message", m.type, "ignored", <<>>, <<>>, TRUE, 0, NoStore)
    /\ UNCHANGED <<status, error, uploadProgress, activeRagStoreName, chatHistory,
                   isQueryLoading, exampleQuestions, documentName, ragStoreNameRef,
                   handlerStore, tasks, cleanups, storeCount, created, deleted, deletedAgain,
                   commands, unloaded>>

(* --------------------------- the specification ------------------------- *)

Next ==
    \/ \E f \in FileLists, n \in DisplayNames, o \in Outcomes : InitChat(f, n, o)
    \/ \E k \in 1..Len(tasks), o \in CreateOutcomes : CreateReturns(k, o)
    \/ \E k \in 1..Len(tasks), o \in Outcomes : FetchReturns(k, o)
    \/ \E k \in 1..Len(tasks), o \in Outcomes : UploadReturns(k, o)
    \/ \E k \in 1..Len(tasks), o \in Outcomes : QuestionsReturn(k, o)
    \/ \E k \in 1..Len(tasks) : DelayReturns(k)
    \/ \E m \in Messages : SendMessage(m)
    \/ \E k \in 1..Len(tasks), o \in Outcomes : SearchReturns(k, o)
    \/ ResetChat
    \/ \E k \in 1..Len(tasks), o \in Outcomes : DeleteReturns(k, o)
    \/ ClearError
    \/ HandleUnload
    \/ \E s \in Stores, o \in Outcomes : CleanupSettles(s, o)

Spec == Init /\ [][Next]_vars

\* the program receiving arbitrary message events besides the commands
NextMsg ==
    \/ Next
    \/ \E m \in OtherMessages : OtherMessage(m)

SpecMsg == Init /\ [][NextMsg]_vars

\* a host that sends initChat commands one after the other, each after the
\* previous initialization has finished
NextSeq ==
    \/ /\ tasks = <<>>
       /\ \E f \in NamedFileLists, n \in NamedDisplayNames, o \in Outcomes : InitChat(f, n, o)
    \/ \E k \in 1..Len(tasks), o \in CreateOutcomes : CreateReturns(k, o)
    \/ \E k \in 1..Len(tasks), o \in Outcomes : FetchReturns(k, o)
    \/ \E k \in 1..Len(tasks), o \in Outcomes : UploadReturns(k, o)
    \/ \E k \in 1..Len(tasks), o \in Outcomes : QuestionsReturn(k, o)
    \/ \E k \in 1..Len(tasks) : DelayReturns(k)
    \/ ClearError

SpecSeq == Init /\ [][NextSeq]_vars

\* every call an initialization awaits settles: createRagStore, fetch,
\* uploadToRagStore and generateExampleQuestions answer, and the timer of the
\* final delay fires
InitReturns ==
    \/ \E k \in 1..Len(tasks), o \in CreateOutcomes : CreateReturns(k, o)
    \/ \E k \in 1..Len(tasks), o \in Outcomes : FetchReturns(k, o)
    \/ \E k \in 1..Len(tasks), o \in Outcomes : UploadReturns(k, o)
    \/ \E k \in 1..Len(tasks), o \in Outcomes : QuestionsReturn(k, o)
    \/ \E k \in 1..Len(tasks) : DelayReturns(k)

\* the program with a backend, a network and a timer that always answer
SpecFair == Init /\ [][Next]_vars /\ WF_vars(InitReturns)


(* ------------------------------- claims -------------------------------- *)

Session == <<status, error, uploadProgress, activeRagStoreName, chatHistory, isQueryLoading,
             exampleQuestions, documentName>>

SessionCleared ==
    /\ status = "Initializing"
    /\ chatHistory = <<>>
    /\ exampleQuestions = <<>>
    /\ documentName = ""
    /\ activeRagStoreName = NoStore

OneChatError(events) == Len(events) = 1 /\ events[1].type = "chatError"

C2_QueryFailureStaysChatting ==
    [][(last'.op = "fileSearch" /\ last'.outcome = "failed" /\ status = "Chatting")
          => status' = "Chatting"]_vars

C4_NoSecondDeletion == deletedAgain = {}

\* C5 as stated: once the unload handler has run, a deleteRagStore call has
\* been issued for every store createRagStore returned.
C5_NoDanglingStore == unloaded => created \subseteq deleted

\* C6: when the catch block of handleInitChat has just run, the status is
\* Error and exactly one chatError was posted; if createRagStore had returned
\* a store, that step issued one deleteRagStore call for it and nothing else,
\* and if createRagStore had not, the step issued no backend call.
C6_InitFailureCompensates ==
    (last.cmd = "initChat" /\ last.outcome = "failed") =>
        /\ status = "Error"
        /\ OneChatError(last.events)
        /\ last.emitted = 1
        /\ IF last.store # NoStore
           THEN last.calls = <<Call("deleteRagStore", last.store)>> /\ last.store \in deleted
           ELSE last.calls = <<>>

\* C6 witness: an upload failed after the store had been created.
C6_Witness ==
    /\ last.cmd = "initChat" /\ last.outcome = "failed"
    /\ last.op = "uploadToRagStore"
    /\ last.store \in created

\* C7: a sendMessage received while the status is not Chatting posts exactly
\* one chatError, issues no backend call, starts no query, and leaves the
\* history, the status and every other session field as they were.
C7_SendRejectedOutsideChatting ==
    [][(last'.op = "sendMessage" /\ status # "Chatting") =>
          /\ OneChatError(last'.events)
          /\ last'.calls = <<>>
          /\ tasks' = tasks
          /\ UNCHANGED Session]_vars

\* C7 witness: a sendMessage has just been rejected in status Uploading.
C7_Witness ==
    /\ last.op = "sendMessage" /\ last.outcome = "rejected"
    /\ status = "Uploading"

C10_OneEventPerCommand ==
    (last.done /\ last.cmd # "" /\ last.outcome # "ignored") => last.emitted = 1


\* C11 as stated: in every state with status Initializing the active store
\* identifier is null, also after clearError has acknowledged an Error.
C11_InitializingHasNoStore ==
    status = "Initializing" => activeRagStoreName = NoStore

\* C16 as stated: whenever status is Error, the active store identifier is null
\* or a deleteRagStore call has already been issued for the active store.
C16_ErrorStoreCleanedUp ==
    status = "Error" => (activeRagStoreName = NoStore \/ activeRagStoreName \in deleted)

\* a resetChat is waiting for its deleteRagStore call to return
ResetInFlight == \E k \in 1..Len(tasks) : tasks[k].kind = "reset"

\* C17 as stated, for the states in which the page is loaded and no resetChat
\* is waiting for its deletion: whenever status is Chatting the active store
\* identifier is non-null and names a created store with no deletion issued.
C17_ChattingHasLiveStore ==
    (status = "Chatting" /\ ~unloaded /\ ~ResetInFlight) =>
        /\ activeRagStoreName # NoStore
        /\ activeRagStoreName \in created
        /\ activeRagStoreName \notin deleted

\* the initialization sequences in flight
InitsInFlight == {k \in 1..Len(tasks) : tasks[k].kind = "init"}

\* C18 as stated: at most one initialization sequence is in flight at any time.
C18_OneInitInFlight == Cardinality(InitsInFlight) <= 1

\* a payload with neither url nor base64Data
Invalid(p) == p.url = "" /\ p.base64Data = ""

HasInvalid(files) == \E j \in 1..Len(files) : Invalid(files[j])

\* the position of the first such payload in a list that has one
FirstInvalid(files) ==
    CHOOSE j \in 1..Len(files) : Invalid(files[j]) /\ \A i \in 1..(j - 1) : ~Invalid(files[i])

SendAccepted == last'.op = "sendMessage" /\ last'.outcome = "started"

\* the step is the return of the query of a sendMessage that was accepted
\* while no other handler was suspended and after which no command arrived
SoloSendReturns ==
    /\ last'.op = "fileSearch"
    /\ Len(tasks) = 1 /\ tasks[1].kind = "send"
    /\ tasks[1].soloAt = commands

\* C12: a sendMessage accepted in Chatting with an active store appends the
\* user message on acceptance; when it was accepted with no other handler
\* running and no command arrives before its query returns, the history is
\* then the history found on acceptance followed by exactly two messages: the
\* user message and, on success, the model reply with its grounding chunks,
\* on failure the fixed apology with role model.
C12_SendAppendsTwoMessages ==
    /\ [][SendAccepted =>
            /\ status = "Chatting" /\ handlerStore # NoStore
            /\ chatHistory' = Append(chatHistory, [role |-> "user",
                                                   text |-> tasks'[Len(tasks')].message,
                                                   groundingChunks |-> FALSE])]_vars
    /\ [][SoloSendReturns =>
            LET t == tasks[1]
                n == Len(t.before)
            IN  /\ Len(chatHistory') = n + 2
                /\ \A j \in 1..n : chatHistory'[j] = t.before[j]
                /\ chatHistory'[n + 1].role = "user"
                /\ chatHistory'[n + 1].text = t.message
                /\ chatHistory'[n + 2].role = "model"
                /\ IF last'.outcome = "ok"
                   THEN chatHistory'[n + 2].groundingChunks
                   ELSE /\ chatHistory'[n + 2].text = ApologyText
                        /\ ~chatHistory'[n + 2].groundingChunks]_vars

\* after one initChat and two sendMessage commands, the second query, handled
\* alone, has failed after the first one succeeded: the history holds two
\* exchanges
C12_Witness ==
    /\ last.op = "fileSearch" /\ last.outcome = "failed"
    /\ commands = 3 /\ tasks = <<>>
    /\ Len(chatHistory) = 4
    /\ chatHistory[2].groundingChunks
    /\ chatHistory[4].text = ApologyText

\* the calls one initialization makes for a list of payloads, in the order
\* C19 gives: createRagStore, then resolution and upload of each file in list
\* order, then generateExampleQuestions
ExpectedCalls(files) ==
    [j \in 1..(2 * Len(files) + 2) |->
        IF j = 1 THEN [fn |-> "createRagStore", file |-> 0]
        ELSE IF j = 2 * Len(files) + 2 THEN [fn |-> "generateExampleQuestions", file |-> 0]
        ELSE IF j % 2 = 0 THEN [fn |-> "getFileFromPayload", file |-> j \div 2]
        ELSE [fn |-> "uploadToRagStore", file |-> j \div 2]]

IsPrefix(s, t) == Len(s) <= Len(t) /\ \A j \in 1..Len(s) : s[j] = t[j]

\* the operation whose return an initialization waits for after starting fn
Pending(fn) == IF fn = "getFileFromPayload" THEN "fetch" ELSE fn

HasChatReady(events) == \E j \in 1..Len(events) : events[j].type = "chatReady"

\* C19: the calls started by one initialization are a prefix of
\* createRagStore, (resolve i, upload i) for each file in list order,
\* generateExampleQuestions; a further call is started only in the step in
\* which the previous one returns successfully; chatReady is emitted only in
\* the step that ends an initialization whose calls have all been made and
\* whose suggestions have returned, and that step sets status to Chatting; no
\* other step moves the status to Chatting.
C19_InitCallsInOrder ==
    /\ [](\A k \in InitsInFlight : IsPrefix(tasks[k].calls, ExpectedCalls(tasks[k].files)))
    /\ [][\A k \in InitsInFlight :
            (Len(tasks') = Len(tasks) /\ tasks'[k] # tasks[k]) =>
                /\ last'.op = Pending(tasks[k].calls[Len(tasks[k].calls)].fn)
                /\ last'.outcome = "ok"
                /\ IsPrefix(tasks[k].calls, tasks'[k].calls)]_vars
    /\ [][HasChatReady(last'.events) =>
            /\ last'.events = <<Event("chatReady", documentName')>>
            /\ status' = "Chatting"
            /\ \E k \in InitsInFlight :
                /\ tasks' = RemoveAt(tasks, k)
                /\ tasks[k].pc = "delay"
                /\ tasks[k].calls = ExpectedCalls(tasks[k].files)
                /\ Len(tasks[k].uploaded) = Len(tasks[k].files)]_vars
    /\ [][(status' = "Chatting" /\ status # "Chatting") => HasChatReady(last'.events)]_vars

\* an initialization with two files has gone through all its calls and ended
\* with chatReady
C19_Witness ==
    /\ last.op = "chatReady" /\ HasChatReady(last.events)
    /\ status = "Chatting"
    /\ last.events[1].payload = "B.pdf & A.pdf"

\* the value of current that C20 gives for the position of an initialization
ClaimedCurrent(t) ==
    CASE t.pc = "create" -> 0
      [] t.pc \in {"fetch", "upload"} -> t.i + 1
      [] t.pc = "questions" -> Len(t.files) + 1
      [] OTHER -> Len(t.files) + 2

\* C20 as stated: while an initialization with N files is running the progress
\* value is set with total = N + 2 and current = 0 during creation, i while
\* file i is processed, N + 1 during suggestion generation and N + 2 at the
\* ready step; once no initialization is running the progress value is null.
C20_ProgressFollowsInit ==
    /\ \A k \in InitsInFlight :
        /\ uploadProgress.set
        /\ uploadProgress.total = Len(tasks[k].files) + 2
        /\ uploadProgress.current = ClaimedCurrent(tasks[k])
    /\ InitsInFlight = {} => ~uploadProgress.set

\* C15: a message event that is not one of the three commands from the parent
\* changes no session field and no other part of the program's state, issues
\* no backend call and emits no outbound event.
C15_OtherMessageChangesNothing ==
    [][last'.op = "message" =>
        /\ UNCHANGED <<status, activeRagStoreName, chatHistory, exampleQuestions,
                       documentName, error, uploadProgress, isQueryLoading>>
        /\ UNCHANGED <<tasks, created, deleted, deletedAgain, cleanups, storeCount,
                       ragStoreNameRef, handlerStore>>
        /\ last'.calls = <<>>
        /\ last'.events = <<>>]_vars

\* a command sent by a window that is not the parent was ignored during a chat
\* with a query in flight
C15_Witness ==
    /\ last.op = "message" /\ last.cmd = "initChat"
    /\ status = "Chatting" /\ Len(chatHistory) = 1
    /\ Len(tasks) = 1

\* the label C13 gives for a display name and a list of payloads; a file
\* built from a payload without fileName is named unknown_file
ClaimedLabel(name, files) ==
    LET nameOf(p) == IF p.fileName = "" THEN "unknown_file" ELSE p.fileName
    IN  IF name # "" THEN name
        ELSE IF Len(files) = 1 THEN nameOf(files[1])
        ELSE IF Len(files) = 2 THEN nameOf(files[1]) \o " & " \o nameOf(files[2])
        ELSE ToString(Len(files)) \o " documents"

\* C13: when an initialization succeeds, documentName and the documentName
\* carried by chatReady are the display name if one was given, else the name
\* of the single file, else "A & B" from the two file names in list order,
\* else "N documents" for N >= 3 files.
C13_DocumentNameLabel ==
    [][HasChatReady(last'.events) =>
        \E k \in InitsInFlight :
            /\ tasks' = RemoveAt(tasks, k)
            /\ documentName' = ClaimedLabel(tasks[k].name, tasks[k].files)
            /\ last'.events = <<Event("chatReady", documentName')>>]_vars

\* an initialization with three files and no display name has succeeded as
\* the second or a later command of the host
C13_Witness ==
    /\ last.op = "chatReady"
    /\ documentName = "3 documents"
    /\ commands >= 2

\* the initialization that asked for store s is suspended at one of its awaits
ChainRunning(s) == \E k \in InitsInFlight : tasks[k].storeName = s

\* C21: with every awaited call settling, and until the page is unloaded,
\* every initialization that was started comes to its end and the status does
\* not stay Uploading; the step that ends an initialization either moves to
\* Chatting and emits chatReady, or moves to Error and emits one chatError.
C21_InitRunsToCompletion ==
    /\ \A s \in Stores : ChainRunning(s) ~> (~ChainRunning(s) \/ unloaded)
    /\ (status = "Uploading") ~> (status # "Uploading" \/ unloaded)
    /\ [][\A k \in InitsInFlight :
            (tasks' = RemoveAt(tasks, k) /\ last'.cmd = "initChat" /\ last'.done) =>
                \/ /\ status' = "Chatting"
                   /\ last'.events = <<Event("chatReady", documentName')>>
                \/ /\ status' = "Error"
                   /\ OneChatError(last'.events)]_vars

\* an initialization has run up to suggestion generation and ended there in
\* Error, the page still loaded
C21_Witness ==
    /\ last.op = "generateExampleQuestions" /\ last.outcome = "failed"
    /\ status = "Error" /\ ~unloaded
    /\ InitsInFlight = {}

====
